---- MODULE Spec2Model ----
(***************************************************************************)
(* A model of src/app.py: the invoice service of blossom-bot.  One inbound *)
(* HTTP request is handled at a time, through the steps of the code: the   *)
(* token decorator, the handler's reading of the payload, normalisation,   *)
(* rendering, PDF generation, file naming, and then either the preview     *)
(* response or the delivery call to the messaging endpoint.                *)
(*                                                                         *)
(* Text is a sequence of characters, each character a one-character string *)
(* (a non-ASCII character is written by its code point, "u0421").  An      *)
(* optional value (Python's None or a value) is a sequence of length 0 or  *)
(* 1.  Numbers are exact decimals held as an integer count of hundredths.  *)
(***************************************************************************)
EXTENDS Integers, Sequences, FiniteSets, TLC

VARIABLES
  INTERNAL_API_TOKEN, BOT_TOKEN, ADMIN_CHAT_ID,
  pc, route, token, payload, fields, html_doc, pdf_bytes, pdf_ok, filename,
  remote, exc, resp,
  normCalls, renderCalls, pdfCalls, tgCalls,
  fnPc, fnIn, fnOut, fnTwice

config == <<INTERNAL_API_TOKEN, BOT_TOKEN, ADMIN_CHAT_ID>>
reqvars == <<pc, route, token, payload, fields, html_doc, pdf_bytes, pdf_ok,
             filename, remote, exc, resp,
             normCalls, renderCalls, pdfCalls, tgCalls>>
fnvars == <<fnPc, fnIn, fnOut, fnTwice>>
vars == <<config, reqvars, fnvars>>

----------------------------------------------------------------------------
(* Bounds of the model.                                                    *)

\* longest items list a payload carries
MaxItems == 2
\* longest free part of an input of _safe_filename (a run of padding follows)
MaxLen == 2

----------------------------------------------------------------------------
(* Optional values and text.                                               *)

None == <<>>
Some(v) == <<v>>
\* Python truthiness of an optional string: None and "" are falsy
Truthy(o) == o # None /\ o[1] # ""

Min(a, b) == IF a < b THEN a ELSE b

UpperSeq == <<"A","B","C","D","E","F","G","H","I","J","K","L","M",
              "N","O","P","Q","R","S","T","U","V","W","X","Y","Z">>
LowerSeq == <<"a","b","c","d","e","f","g","h","i","j","k","l","m",
              "n","o","p","q","r","s","t","u","v","w","x","y","z">>
DigitSeq == <<"0","1","2","3","4","5","6","7","8","9">>
Range(s) == {s[i] : i \in DOMAIN s}

\* the characters \s matches and str.strip() strips
Whitespace == {" ", "\t", "\n", "\r"}
\* the class [a-z0-9_\-] of the second substitution
SafeChars == Range(LowerSeq) \cup Range(DigitSeq) \cup {"_", "-"}

\* str.lower() on one character; u0421..u043d are Cyrillic letters
LowerChar(c) ==
  IF c \in Range(UpperSeq)
    THEN LowerSeq[CHOOSE i \in DOMAIN UpperSeq : UpperSeq[i] = c]
    ELSE IF c = "u0421" THEN "u0441" ELSE c
Lower(s) == [i \in DOMAIN s |-> LowerChar(s[i])]

RECURSIVE LStrip(_)
LStrip(s) ==
  IF s # <<>> /\ Head(s) \in Whitespace THEN LStrip(Tail(s)) ELSE s
RECURSIVE RStrip(_)
RStrip(s) ==
  IF s # <<>> /\ s[Len(s)] \in Whitespace
    THEN RStrip(SubSeq(s, 1, Len(s) - 1)) ELSE s
Strip(s) == RStrip(LStrip(s))

\* re.sub(r"\s+", "_", s): every maximal run of whitespace becomes one "_"
RECURSIVE CollapseWs(_)
CollapseWs(s) ==
  IF s = <<>> THEN <<>>
  ELSE IF Head(s) \in Whitespace THEN <<"_">> \o CollapseWs(LStrip(Tail(s)))
  ELSE <<Head(s)>> \o CollapseWs(Tail(s))

\* re.sub(r"[^a-z0-9_\-]+", "", s)
IsSafe(c) == c \in SafeChars
RemoveDisallowed(s) == SelectSeq(s, IsSafe)

\* the slice s[:n]
Take(s, n) == SubSeq(s, 1, Min(n, Len(s)))

\* the cap of s[:60]
MaxNameLen == 60
FallbackName == <<"f","i","l","e">>

\* a plausible slip: the fallback token forgotten
safe_filename_nofallback(s) ==
  LET s0 == IF s = None THEN <<>> ELSE s[1]
  IN Take(RemoveDisallowed(CollapseWs(Lower(Strip(s0)))), MaxNameLen)

\* _safe_filename(s), s an optional text (None stands for Python's None)
safe_filename(s) ==
  LET s0 == IF s = None THEN <<>> ELSE s[1]
      s1 == Lower(Strip(s0))
      s2 == CollapseWs(s1)
      s3 == RemoveDisallowed(s2)
      s4 == Take(s3, MaxNameLen)
  IN IF s4 = <<>> THEN FallbackName ELSE s4

----------------------------------------------------------------------------
(* JSON values of a payload, and Python's conversions of them.  A scalar   *)
(* field is absent, null, a number (n, in hundredths), a text (s) or an    *)
(* object.                                                                 *)

JAbsent == [k |-> "absent", n |-> 0, s |-> <<>>]
JNull == [k |-> "null", n |-> 0, s |-> <<>>]
JNum(n) == [k |-> "num", n |-> n, s |-> <<>>]
JStr(s) == [k |-> "str", n |-> 0, s |-> s]
JObj == [k |-> "dict", n |-> 0, s |-> <<>>]

\* d.get(key): None when the key is absent
Get(v) == IF v.k = "absent" THEN JNull ELSE v
\* d.get(key, default)
GetOr(v, default) == IF v.k = "absent" THEN default ELSE v

\* truthiness, as the operand of `or` (JObj stands for a non-empty object)
PyTruthy(v) ==
  CASE v.k = "num" -> v.n # 0
    [] v.k = "str" -> v.s # <<>>
    [] v.k = "dict" -> TRUE
    [] OTHER -> FALSE

\* str(v or default): the text fields of the model are texts, null or absent
StrOr(v, default) == IF PyTruthy(v) THEN v.s ELSE default

DigitVal(c) == (CHOOSE i \in DOMAIN DigitSeq : DigitSeq[i] = c) - 1
RECURSIVE ToNat(_)
ToNat(s) ==
  IF s = <<>> THEN 0
  ELSE ToNat(SubSeq(s, 1, Len(s) - 1)) * 10 + DigitVal(s[Len(s)])

IsDigits(s) == \A i \in DOMAIN s : s[i] \in Range(DigitSeq)
DotAt(s) == {i \in DOMAIN s : s[i] = "."}

\* float(text): surrounding whitespace ignored, digits with at most one
\* point and at least one digit; anything else is a ValueError.  The
\* value is kept to hundredths (texts of the model carry at most two
\* fractional digits; no signs or exponents occur in them).
ParseFloat(s) ==
  LET t == Strip(s)
      dots == DotAt(t)
      d == IF dots = {} THEN Len(t) + 1 ELSE CHOOSE i \in dots : TRUE
      ip == SubSeq(t, 1, d - 1)
      fp == SubSeq(t, d + 1, Len(t))
      fp2 == Take(fp \o <<"0", "0">>, 2)
      good == /\ Cardinality(dots) <= 1
              /\ IsDigits(ip) /\ IsDigits(fp)
              /\ Len(ip) + Len(fp) > 0
  IN IF good THEN [ok |-> TRUE, n |-> ToNat(ip) * 100 + ToNat(fp2)]
     ELSE [ok |-> FALSE, n |-> 0]

\* float(v): a number is itself, a text is parsed, None or an object is a
\* TypeError
Float(v) ==
  CASE v.k = "num" -> [ok |-> TRUE, n |-> v.n]
    [] v.k = "str" -> ParseFloat(v.s)
    [] OTHER -> [ok |-> FALSE, n |-> 0]

\* try: float(d.get(key, 0)) except Exception: 0.0
FloatOrZero(v) ==
  LET r == Float(GetOr(v, JNum(0)))
  IN IF r.ok THEN r.n ELSE 0

\* the product of two numbers held in hundredths (exact for the numbers of
\* the model, which are multiples of a half)
Mul(a, b) == (a * b) \div 100

RECURSIVE NatToText(_)
NatToText(n) ==
  IF n < 10 THEN <<DigitSeq[n + 1]>>
  ELSE NatToText(n \div 10) \o <<DigitSeq[(n % 10) + 1]>>

\* f"{x:.2f}"
Fmt2(n) ==
  LET a == IF n < 0 THEN -n ELSE n
      body == NatToText(a \div 100) \o <<".">>
              \o <<DigitSeq[((a % 100) \div 10) + 1], DigitSeq[(a % 10) + 1]>>
  IN IF n < 0 THEN <<"-">> \o body ELSE body

\* html.escape(c) for one character
EscChar(c) ==
  CASE c = "&" -> <<"&","a","m","p",";">>
    [] c = "<" -> <<"&","l","t",";">>
    [] c = ">" -> <<"&","g","t",";">>
    [] c = "\"" -> <<"&","q","u","o","t",";">>
    [] c = "'" -> <<"&","#","x","2","7",";">>
    [] OTHER -> <<c>>
RECURSIVE Esc(_)
Esc(s) == IF s = <<>> THEN <<>> ELSE EscChar(Head(s)) \o Esc(Tail(s))

----------------------------------------------------------------------------
(* The payload normaliser and the document renderer.                       *)

\* an element of an items list: a record (k = "dict") with its three
\* fields, or something that is no record
ItemDict(name, quantity, price) ==
  [k |-> "dict", name |-> name, quantity |-> quantity, price |-> price]
ItemOther(kind) ==
  [k |-> kind, name |-> JAbsent, quantity |-> JAbsent, price |-> JAbsent]

\* the items field: absent, null, a text, a number, an object, or a list
ItemsOf(kind) == [k |-> kind, e |-> <<>>]
ItemsList(e) == [k |-> "list", e |-> e]

DefaultSalon == <<"u0421","u0430","u043b","u043e","u043d">>
DefaultOrder == <<"U","N","K","N","O","W","N">>

\* a plausible slip: the isinstance test replaced by truthiness, so that
\* a non-empty text is iterated character by character
extract_items_truthy(p) ==
  CASE p.items.k = "list" -> p.items.e
    [] p.items.k \in {"str", "dict"} -> <<ItemOther("str")>>
    [] OTHER -> <<>>

\* payload.get("items") if isinstance(payload.get("items"), list) else []
extract_items(p) == IF p.items.k = "list" THEN p.items.e ELSE <<>>

\* _extract_invoice_fields(payload); now is the clock's reading
extract_invoice_fields(p, now) ==
  [salon_name |-> StrOr(Get(p.salon_name), DefaultSalon),
   generation_dt_str |-> now.dt,
   header_date_str |->
     IF PyTruthy(Get(p.invoice_date)) THEN p.invoice_date.s
     ELSE IF PyTruthy(Get(p.date)) THEN p.date.s
     ELSE now.date,
   order_id |-> StrOr(Get(p.order_id), DefaultOrder),
   items |-> extract_items(p),
   total_sum |-> FloatOrZero(p.total_sum)]

PlaceholderRow ==
  [kind |-> "placeholder", idx |-> 0, name |-> <<>>, qty |-> 0, price |-> 0,
   amount |-> 0, price_text |-> <<>>, amount_text |-> <<>>]

\* one pass of the loop body: the table row of a record item
ItemRow(idx, item) ==
  LET qty == FloatOrZero(item.quantity)
      price == FloatOrZero(item.price)
      amount == Mul(price, qty)
  IN [kind |-> "item", idx |-> idx,
      name |-> IF GetOr(item.name, JStr(<<>>)).k = "str"
                 THEN Esc(item.name.s) ELSE <<>>,
      qty |-> qty, price |-> price, amount |-> amount,
      price_text |-> Fmt2(price), amount_text |-> Fmt2(amount)]

\* the loop over enumerate(items, start=1): item.get on an element that is
\* no record raises AttributeError, which ends the loop and the function
RECURSIVE RenderRows(_, _)
RenderRows(items, idx) ==
  IF items = <<>> THEN [raised |-> FALSE, rows |-> <<>>]
  ELSE IF Head(items).k # "dict" THEN [raised |-> TRUE, rows |-> <<>>]
  ELSE LET rest == RenderRows(Tail(items), idx + 1)
       IN IF rest.raised THEN rest
          ELSE [raised |-> FALSE,
                rows |-> <<ItemRow(idx, Head(items))>> \o rest.rows]

\* "\n".join(rows) if rows else the placeholder row
tbody_of(rows) == IF rows # <<>> THEN rows ELSE <<PlaceholderRow>>

Currency == <<" ", "u20bd">>

\* build_invoice_html(...): the markup, by its interpolated parts
build_invoice_html(fl) ==
  LET r == RenderRows(fl.items, 1)
  IN [raised |-> r.raised,
      header_date |-> Esc(fl.header_date_str),
      salon_name |-> Esc(fl.salon_name),
      order_id |-> Esc(fl.order_id),
      tbody |-> IF r.raised THEN <<>> ELSE tbody_of(r.rows),
      total |-> Fmt2(fl.total_sum) \o Currency,
      footer |-> Esc(fl.generation_dt_str)]

\* the filename of _build_invoice_pdf: the header date as it is, then the
\* two sanitised tokens
invoice_filename(fl) ==
  fl.header_date_str \o <<"_">> \o safe_filename(Some(fl.salon_name))
    \o <<"_">> \o safe_filename(Some(fl.order_id)) \o <<".","p","d","f">>

----------------------------------------------------------------------------
(* Inputs: the requests a client can send, the clock, the remote endpoint. *)

EnvValues(v) == {None, Some(""), Some(v)}
HeaderTokens == {None, Some(""), Some("s3cret"), Some("wrong")}
Routes == {"pdf", "send"}

Clock ==
  {[date |-> <<"0","3",".","1","1",".","2","0","2","6">>,
    dt |-> <<"0","3",".","1","1",".","2","0","2","6"," ","0","9",":","0","0">>]}

ItemShapes ==
  {ItemDict(JStr(<<"W","i","d","g","e","t">>), JNum(300), JNum(1000)),
   ItemDict(JStr(<<"<","b",">">>), JStr(<<"a","b","c">>), JStr(<<"2",".","5">>)),
   ItemDict(JAbsent, JNull, JObj),
   ItemOther("str")}

RECURSIVE SeqsUpTo(_, _)
SeqsUpTo(S, n) ==
  IF n = 0 THEN {<<>>}
  ELSE LET shorter == SeqsUpTo(S, n - 1)
       IN shorter \cup {Append(q, x) : q \in shorter, x \in S}

ItemsValues ==
  {ItemsOf(kind) : kind \in {"absent", "null", "str", "num", "dict"}}
    \cup {ItemsList(e) : e \in SeqsUpTo(ItemShapes, MaxItems)}

Payloads ==
  [salon_name : {JAbsent, JStr(<<"M","y"," ","S","a","l","o","n">>)},
   order_id : {JAbsent, JStr(<<"O","R","D","-","1">>), JStr(<<"A","\n","B">>)},
   invoice_date : {JAbsent, JStr(<<"1","2","/","3","1">>)},
   date : {JAbsent, JStr(<<"2","0","2","6","-","0","1","-","0","2">>)},
   items : ItemsValues,
   total_sum : {JAbsent, JNum(3000), JStr(<<"1","2",".","5">>),
                JStr(<<"a","b","c">>)}]

\* what the messaging endpoint does with one POST: the connection fails,
\* the 60 s timeout passes, or it answers with a status and a body
Outcome(kind, status, text, is_json) ==
  [kind |-> kind, status |-> status, text |-> text, is_json |-> is_json]
RemoteOutcomes ==
  {Outcome("connection_error", 0, "", FALSE),
   Outcome("timeout", 0, "", FALSE),
   Outcome("response", 200, "{ok:true,result:{message_id:7}}", TRUE),
   Outcome("response", 200, "<html>gateway</html>", FALSE),
   Outcome("response", 304, "", FALSE),
   Outcome("response", 400, "{ok:false,description:chat not found}", TRUE),
   Outcome("response", 502, "Bad Gateway", FALSE)}

----------------------------------------------------------------------------
(* Errors and responses.                                                   *)

\* an exception, by its type and the text str(e) gives; the text of the
\* delivery error is "Telegram error {status}: {text}"
Err(type, msg) == [type |-> type, msg |-> msg, status |-> 0, text |-> ""]

\* a plausible slip: the remote body left out of the message
telegram_error_no_body(status, text) ==
  [type |-> "RuntimeError", msg |-> "Telegram error", status |-> status,
   text |-> ""]

\* RuntimeError(f"Telegram error {r.status_code}: {r.text}")
telegram_error(status, text) ==
  [type |-> "RuntimeError", msg |-> "Telegram error", status |-> status,
   text |-> text]

Response(http, kind, ok, error, order_id, telegram, bytes, fname) ==
  [http |-> http, kind |-> kind, ok |-> ok, error |-> error,
   order_id |-> order_id, telegram |-> telegram, bytes |-> bytes,
   filename |-> fname]

\* jsonify({"error": "Unauthorized"}), 401
Unauthorized ==
  Response(401, "json", "absent", Some(Err("", "Unauthorized")),
           None, None, None, None)
\* jsonify({"ok": False, "error": str(e)}), 500
Failure(e) ==
  Response(500, "json", "false", Some(e), None, None, None, None)

\* a plausible slip: `token != INTERNAL_API_TOKEN` alone
authorized_no_empty_check(tok, secret) == tok = secret

\* the decorator's test, negated: not (not token or token != secret)
authorized(tok, secret) == ~(~Truthy(tok) \/ tok # secret)

\* a plausible slip: `is None` in place of `not`
chat_id_missing_none_only == ADMIN_CHAT_ID = None

\* not ADMIN_CHAT_ID
chat_id_missing == ~Truthy(ADMIN_CHAT_ID)

\* a plausible slip: the status never looked at
resp_ok_always(o) == TRUE

\* r.ok of requests: the status is below 400
resp_ok(o) == o.status < 400

\* Headers.__setitem__ of the response refuses a value holding CR or LF
\* (ValueError)
HeaderValueOK(s) == \A i \in DOMAIN s : s[i] \notin {"\n", "\r"}

----------------------------------------------------------------------------
(* The service: one request at a time.                                     *)

Idle ==
  /\ pc = "idle" /\ route = "" /\ token = None /\ payload = None
  /\ fields = None /\ html_doc = None /\ pdf_bytes = None /\ pdf_ok = FALSE
  /\ filename = None /\ remote = None /\ exc = None /\ resp = None
  /\ normCalls = 0 /\ renderCalls = 0 /\ pdfCalls = 0 /\ tgCalls = 0

FnOff == fnPc = "off" /\ fnIn = None /\ fnOut = <<>> /\ fnTwice = <<>>

\* the process starts with its three settings read from the environment
Init ==
  /\ INTERNAL_API_TOKEN \in EnvValues("s3cret")
  /\ BOT_TOKEN \in EnvValues("bot")
  /\ ADMIN_CHAT_ID \in EnvValues("42")
  /\ Idle
  /\ FnOff

\* except Exception as e: the failure response of both handlers
Fail(e) ==
  /\ exc' = Some(e)
  /\ resp' = Some(Failure(e))
  /\ pc' = "done"

\* a POST arrives on one of the two routes, with or without the header
Receive ==
  /\ pc \in {"idle", "done"}
  /\ \E r \in Routes, h \in HeaderTokens :
       /\ route' = r
       /\ token' = h
  /\ pc' = "auth"
  /\ payload' = None /\ fields' = None /\ html_doc' = None
  /\ pdf_bytes' = None /\ pdf_ok' = FALSE /\ filename' = None
  /\ remote' = None /\ exc' = None /\ resp' = None
  /\ normCalls' = 0 /\ renderCalls' = 0 /\ pdfCalls' = 0 /\ tgCalls' = 0
  /\ UNCHANGED <<config, fnvars>>

\* require_internal_token: 401 or on to the handler
Authorize ==
  /\ pc = "auth"
  /\ IF authorized(token, INTERNAL_API_TOKEN)
       THEN /\ pc' = "handler"
            /\ UNCHANGED resp
       ELSE /\ pc' = "done"
            /\ resp' = Some(Unauthorized)
  /\ UNCHANGED <<config, fnvars, route, token, payload, fields, html_doc,
                 pdf_bytes, pdf_ok, filename, remote, exc,
                 normCalls, renderCalls, pdfCalls, tgCalls>>

\* invoice_pdf, its first line: the body is read
InvoicePdfBegin ==
  /\ pc = "handler" /\ route = "pdf"
  /\ \E p \in Payloads : payload' = Some(p)
  /\ pc' = "extract"
  /\ UNCHANGED <<config, fnvars, route, token, fields, html_doc, pdf_bytes,
                 pdf_ok, filename, remote, exc, resp,
                 normCalls, renderCalls, pdfCalls, tgCalls>>

\* send_invoice, to the test of ADMIN_CHAT_ID
SendInvoiceBegin ==
  /\ pc = "handler" /\ route = "send"
  /\ \E p \in Payloads : payload' = Some(p)
  /\ IF chat_id_missing
       THEN /\ resp' = Some(Failure(Err("", "ADMIN_CHAT_ID is not set")))
            /\ pc' = "done"
       ELSE /\ pc' = "extract"
            /\ UNCHANGED resp
  /\ UNCHANGED <<config, fnvars, route, token, fields, html_doc, pdf_bytes,
                 pdf_ok, filename, remote, exc,
                 normCalls, renderCalls, pdfCalls, tgCalls>>

\* _build_invoice_pdf: f = _extract_invoice_fields(payload)
Extract ==
  /\ pc = "extract"
  /\ \E now \in Clock : fields' = Some(extract_invoice_fields(payload[1], now))
  /\ normCalls' = normCalls + 1
  /\ pc' = "render"
  /\ UNCHANGED <<config, fnvars, route, token, payload, html_doc, pdf_bytes,
                 pdf_ok, filename, remote, exc, resp,
                 renderCalls, pdfCalls, tgCalls>>

\* _build_invoice_pdf: html_doc = build_invoice_html(...)
Render ==
  /\ pc = "render"
  /\ renderCalls' = renderCalls + 1
  /\ LET doc == build_invoice_html(fields[1])
     IN IF doc.raised
          THEN /\ Fail(Err("AttributeError", "object has no attribute 'get'"))
               /\ UNCHANGED html_doc
          ELSE /\ html_doc' = Some(doc)
               /\ pc' = "pdf"
               /\ UNCHANGED <<exc, resp>>
  /\ UNCHANGED <<config, fnvars, route, token, payload, fields, pdf_bytes,
                 pdf_ok, filename, remote, normCalls, pdfCalls, tgCalls>>

\* _build_invoice_pdf: HTML(string=html_doc).write_pdf(), which the engine
\* completes or fails
WritePdf ==
  /\ pc = "pdf"
  /\ pdfCalls' = pdfCalls + 1
  /\ \E done \in BOOLEAN :
       /\ pdf_ok' = done
       /\ IF done
            THEN /\ pdf_bytes' = Some([of |-> html_doc[1]])
                 /\ pc' = "name"
                 /\ UNCHANGED <<exc, resp>>
            ELSE /\ Fail(Err("RenderingError", "write_pdf failed"))
                 /\ UNCHANGED pdf_bytes
  /\ UNCHANGED <<config, fnvars, route, token, payload, fields, html_doc,
                 filename, remote, normCalls, renderCalls, tgCalls>>

\* _build_invoice_pdf: the filename (and the caption), then back to the
\* handler
Name ==
  /\ pc = "name"
  /\ filename' = Some(invoice_filename(fields[1]))
  /\ pc' = IF route = "pdf" THEN "respond" ELSE "send"
  /\ UNCHANGED <<config, fnvars, route, token, payload, fields, html_doc,
                 pdf_bytes, pdf_ok, remote, exc, resp,
                 normCalls, renderCalls, pdfCalls, tgCalls>>

\* invoice_pdf: the response with the bytes and its headers
InvoicePdfRespond ==
  /\ pc = "respond"
  /\ IF /\ HeaderValueOK(<<"i","n","l","i","n","e",";"," ">> \o filename[1])
        /\ HeaderValueOK(fields[1].order_id)
       THEN /\ resp' = Some(Response(200, "pdf", "absent", None,
                                     Some(fields[1].order_id), None,
                                     pdf_bytes, filename))
            /\ pc' = "done"
            /\ UNCHANGED exc
       ELSE Fail(Err("ValueError", "newline in header value"))
  /\ UNCHANGED <<config, fnvars, route, token, payload, fields, html_doc,
                 pdf_bytes, pdf_ok, filename, remote,
                 normCalls, renderCalls, pdfCalls, tgCalls>>

\* send_pdf after its POST, and the handler's answer: the outcome o is
\* raised as an exception or returned as the receipt
PostAnswered(o) ==
  /\ remote' = Some(o)
  /\ IF o.kind # "response"
       THEN Fail(Err("RequestException", o.kind))
       ELSE IF ~resp_ok(o)
       THEN Fail(telegram_error(o.status, o.text))
       ELSE IF ~o.is_json
       THEN Fail(Err("JSONDecodeError", "Expecting value"))
       ELSE /\ resp' = Some(Response(200, "json", "true", None,
                                     Some(fields[1].order_id),
                                     Some(o.text), None, None))
            /\ pc' = "done"
            /\ UNCHANGED exc

\* a plausible slip: the POST tried a second time when the first one failed
send_pdf_retry ==
  /\ pc = "send"
  /\ IF ~Truthy(BOT_TOKEN)
       THEN /\ Fail(Err("RuntimeError", "BLOSSOM_BOT_TOKEN is not set"))
            /\ UNCHANGED <<remote, tgCalls>>
       ELSE \E o \in RemoteOutcomes :
              /\ tgCalls' = tgCalls + (IF o.kind = "response" /\ resp_ok(o)
                                         THEN 1 ELSE 2)
              /\ PostAnswered(o)
  /\ UNCHANGED <<config, fnvars, route, token, payload, fields, html_doc,
                 pdf_bytes, pdf_ok, filename,
                 normCalls, renderCalls, pdfCalls>>

\* send_invoice: tg_resp = send_pdf(...) and the response
SendPdf ==
  /\ pc = "send"
  /\ IF ~Truthy(BOT_TOKEN)
       THEN /\ Fail(Err("RuntimeError", "BLOSSOM_BOT_TOKEN is not set"))
            /\ UNCHANGED <<remote, tgCalls>>
       ELSE \E o \in RemoteOutcomes :
              /\ tgCalls' = tgCalls + 1
              /\ PostAnswered(o)
  /\ UNCHANGED <<config, fnvars, route, token, payload, fields, html_doc,
                 pdf_bytes, pdf_ok, filename,
                 normCalls, renderCalls, pdfCalls>>

Next ==
  \/ Receive
  \/ Authorize
  \/ InvoicePdfBegin
  \/ SendInvoiceBegin
  \/ Extract
  \/ Render
  \/ WritePdf
  \/ Name
  \/ InvoicePdfRespond
  \/ SendPdf

Spec == Init /\ [][Next]_vars

----------------------------------------------------------------------------
(* _safe_filename on its own: an input is drawn, the function is applied   *)
(* to it and then to its own result.                                       *)

FnAlphabet == {"a", "B", " ", "\t", "_", "-", "!", "7", "u0421"}
PadChars == {"x", " "}
PadCounts == {MaxNameLen - 1, MaxNameLen, MaxNameLen + 1}
Pad(c, n) == [i \in 1..n |-> c]

\* a short free part, possibly a long run of one character, a last character
FnInputs ==
  LET free == SeqsUpTo(FnAlphabet, MaxLen)
      last == SeqsUpTo(FnAlphabet, 1)
      pads == {<<>>} \cup {Pad(c, n) : c \in PadChars, n \in PadCounts}
  IN {None} \cup {Some(a \o m \o z) : a \in free, m \in pads, z \in last}

FnInit ==
  /\ INTERNAL_API_TOKEN = None /\ BOT_TOKEN = None /\ ADMIN_CHAT_ID = None
  /\ Idle
  /\ fnPc = "in" /\ fnIn \in FnInputs /\ fnOut = <<>> /\ fnTwice = <<>>

SafeFilenameCall ==
  /\ fnPc = "in"
  /\ fnOut' = safe_filename(fnIn)
  /\ fnTwice' = safe_filename(Some(safe_filename(fnIn)))
  /\ fnPc' = "out"
  /\ UNCHANGED <<config, reqvars, fnIn>>

FnNext == SafeFilenameCall

SpecFilename == FnInit /\ [][FnNext]_vars

----------------------------------------------------------------------------
(* The claims.                                                             *)

Done == pc = "done"
\* the header is absent, empty, or differs from the configured secret
BadToken == token = None \/ token = Some("") \/ token # INTERNAL_API_TOKEN
\* a setting of the environment is present and not empty
Configured(o) == o # None /\ o # Some("")
NoWork ==
  /\ normCalls = 0 /\ renderCalls = 0 /\ pdfCalls = 0 /\ tgCalls = 0
  /\ payload = None /\ fields = None /\ html_doc = None /\ pdf_bytes = None
  /\ filename = None /\ remote = None
FailureResponse ==
  /\ resp # None
  /\ resp[1].http = 500 /\ resp[1].kind = "json" /\ resp[1].ok = "false"
  /\ resp[1].error # None
  /\ resp[1].bytes = None /\ resp[1].telegram = None

\* C1: a POST on either route whose X-Internal-Token is absent, empty or not
\* the configured secret (whatever the secret, unset and empty included)
\* is answered 401 Unauthorized, and nothing is normalised, rendered,
\* generated or sent in that request.
C1_UnauthorizedRejected ==
  (pc # "idle" /\ BadToken) =>
    /\ NoWork
    /\ pc \in {"auth", "done"}
    /\ Done => /\ resp # None
               /\ resp[1].http = 401
               /\ resp[1].error = Some(Err("", "Unauthorized"))
               /\ resp[1].ok # "true"

C1_Witness ==
  /\ Done /\ route = "send"
  /\ token = None /\ INTERNAL_API_TOKEN = None
  /\ resp # None /\ resp[1].http = 401

AttemptFailed ==
  remote # None /\ (remote[1].kind # "response" \/ remote[1].status >= 400)

\* C3: within one request the POST to the endpoint is made at most once and
\* the PDF is generated at most once; a failed attempt (remote non-success,
\* network failure, timeout, or a failed generation) ends the request with
\* the failure response, with no second attempt.
C3_NoRetries ==
  /\ tgCalls <= 1
  /\ pdfCalls <= 1
  /\ AttemptFailed => Done /\ tgCalls = 1 /\ FailureResponse
  /\ (pdfCalls = 1 /\ ~pdf_ok) =>
       Done /\ tgCalls = 0 /\ remote = None /\ FailureResponse

C3_Witness ==
  /\ Done /\ tgCalls = 1 /\ pdfCalls = 1
  /\ remote # None /\ remote[1].kind = "timeout"
  /\ resp # None /\ resp[1].http = 500

AuthorizedSend == route = "send" /\ ~BadToken /\ pc \notin {"idle", "auth"}
MissingNames ==
  (IF Configured(ADMIN_CHAT_ID) THEN {} ELSE {"ADMIN_CHAT_ID is not set"})
    \cup (IF Configured(BOT_TOKEN) THEN {}
          ELSE {"BLOSSOM_BOT_TOKEN is not set"})

\* C4, as claimed: an authorized delivery request with ADMIN_CHAT_ID or
\* BLOSSOM_BOT_TOKEN not configured ends with HTTP 500 {ok: false, error},
\* the error naming the missing setting, and no POST is made.  (Requests
\* that end in the AttributeError of C6 are set aside, so that what refutes
\* this is not that defect.)
C4_MissingSettingNamed ==
  (/\ AuthorizedSend /\ Done /\ MissingNames # {}
   /\ ~(exc # None /\ exc[1].type = "AttributeError")) =>
    /\ FailureResponse
    /\ resp[1].error[1].msg \in MissingNames
    /\ tgCalls = 0

\* C4, amended: with ADMIN_CHAT_ID not configured the request ends at once
\* with the error "ADMIN_CHAT_ID is not set", before any normalisation or
\* rendering; with ADMIN_CHAT_ID configured and BLOSSOM_BOT_TOKEN not, the
\* document is built first, and the request ends with HTTP 500
\* {ok: false, error} whose error names BLOSSOM_BOT_TOKEN when the build
\* succeeded and is the build's own error when it failed.  No POST is made
\* in any of these requests.
C4_MissingSettingFailure ==
  (AuthorizedSend /\ MissingNames # {}) =>
    /\ tgCalls = 0 /\ remote = None
    /\ (~Configured(ADMIN_CHAT_ID) /\ pc # "handler") =>
         /\ Done
         /\ resp = Some(Failure(Err("", "ADMIN_CHAT_ID is not set")))
         /\ normCalls = 0 /\ renderCalls = 0 /\ pdfCalls = 0
    /\ (Configured(ADMIN_CHAT_ID) /\ Done) =>
         /\ FailureResponse
         /\ filename # None =>
              resp[1].error[1].msg = "BLOSSOM_BOT_TOKEN is not set"
         /\ filename = None =>
              /\ resp[1].error = exc
              /\ exc[1].type \in {"AttributeError", "RenderingError"}

C4_Witness ==
  /\ AuthorizedSend /\ Done
  /\ Configured(ADMIN_CHAT_ID) /\ BOT_TOKEN = None
  /\ pdf_ok /\ filename # None /\ tgCalls = 0
  /\ resp # None /\ resp[1].error[1].msg = "BLOSSOM_BOT_TOKEN is not set"

\* C5: the preview route normalises, renders and generates as the delivery
\* route does but never delivers: no POST to the endpoint in any request to
\* invoice_pdf, and when the PDF was generated the response carries its
\* bytes.
C5_PreviewReturnsBytes ==
  route = "pdf" =>
    /\ tgCalls = 0 /\ remote = None
    /\ (Done /\ pdf_ok) =>
         /\ normCalls = 1 /\ renderCalls = 1 /\ pdfCalls = 1
         /\ resp # None /\ resp[1].kind = "pdf"
         /\ pdf_bytes # None /\ resp[1].bytes = pdf_bytes

\* a quantity or price no number can be made of
Uncoercible(v) ==
  \/ v.k \in {"null", "dict"}
  \/ v.k = "str" /\ \E i \in DOMAIN v.s : v.s[i] \notin Range(DigitSeq) \cup {"."}

\* C6: normalisation and item coercion never fail: whatever the elements of
\* the items list (one that is no record included), _extract_invoice_fields
\* followed by build_invoice_html completes; a quantity or price that
\* cannot be coerced counts as 0 and the amount is price x quantity.
C6_NormalizationNeverFails ==
  /\ normCalls = 1 => fields # None
  /\ renderCalls = 1 =>
       /\ html_doc # None
       /\ Len(html_doc[1].tbody) >= Len(fields[1].items)
       /\ \A i \in DOMAIN fields[1].items :
            LET item == fields[1].items[i]
                row == html_doc[1].tbody[i]
            IN /\ Uncoercible(item.quantity) => row.qty = 0
               /\ Uncoercible(item.price) => row.price = 0
               /\ row.amount * 100 = row.price * row.qty

ItemsEmptyish ==
  payload # None /\ (payload[1].items.k # "list" \/ payload[1].items.e = <<>>)
TotalGiven(v, text) ==
  (payload[1].total_sum = v) => (html_doc[1].total = text)

\* C7: a payload whose items field is omitted, an empty list, or no list at
\* all normalises to an empty item list without error; the table body is
\* the one placeholder row; PDF generation and delivery still follow; the
\* total is rendered from total_sum as given, 0.00 when omitted.
C7_EmptyItemsPlaceholder ==
  ItemsEmptyish =>
    /\ fields # None => fields[1].items = <<>>
    /\ renderCalls = 1 =>
         /\ html_doc # None
         /\ html_doc[1].tbody = <<PlaceholderRow>>
         /\ TotalGiven(JAbsent, <<"0",".","0","0"," ","u20bd">>)
         /\ TotalGiven(JNum(3000), <<"3","0",".","0","0"," ","u20bd">>)
         /\ TotalGiven(JStr(<<"1","2",".","5">>),
                       <<"1","2",".","5","0"," ","u20bd">>)
    /\ (Done /\ fields # None) => pdfCalls = 1
    /\ (Done /\ route = "send" /\ pdf_ok /\ Configured(BOT_TOKEN)) =>
         tgCalls = 1
    /\ exc # None => exc[1].type # "AttributeError"

C7_Witness ==
  /\ Done /\ route = "send"
  /\ payload # None /\ payload[1].items.k = "str"
  /\ payload[1].total_sum = JAbsent
  /\ html_doc # None /\ html_doc[1].tbody = <<PlaceholderRow>>
  /\ tgCalls = 1 /\ resp # None /\ resp[1].ok = "true"

\* C8: the filename of _build_invoice_pdf is made of sanitised tokens only:
\* before its ".pdf" it holds only characters of [a-z0-9_-] (the dots of a
\* date are let through here, so that the clock's own date is no
\* violation), its length is at most that of three capped tokens, two
\* separators and the suffix, and it is not empty.
C8_FilenameSafe ==
  filename # None =>
    LET name == filename[1]
        stem == SubSeq(name, 1, Len(name) - 4)
    IN /\ name # <<>>
       /\ SubSeq(name, Len(name) - 3, Len(name)) = <<".","p","d","f">>
       /\ Range(stem) \subseteq SafeChars \cup {"."}
       /\ Len(name) <= 3 * MaxNameLen + 2 + 4

----------------------------------------------------------------------------

FnText == IF fnIn = None THEN <<>> ELSE fnIn[1]
Count(s, S) == Cardinality({i \in DOMAIN s : s[i] \in S})
\* the whitespace runs of s: those places where one starts
WsRuns(s) ==
  Cardinality({i \in DOMAIN s :
     s[i] \in Whitespace /\ (i = 1 \/ s[i - 1] \notin Whitespace)})
Letters == Range(UpperSeq) \cup Range(LowerSeq)

\* C9: for every input (None and "" included) _safe_filename gives a
\* non-empty text of at most 60 characters of [a-z0-9_-]; upper case is
\* lowered, each run of interior whitespace becomes one underscore, every
\* other disallowed character is removed, "file" is given when nothing
\* remains; and applying it to its own result changes nothing.
C9_SafeFilename ==
  fnPc = "out" =>
    LET s == FnText
    IN /\ fnOut # <<>>
       /\ Len(fnOut) <= 60
       /\ Range(fnOut) \subseteq SafeChars
       /\ fnTwice = fnOut
       \* nothing remains: only edge whitespace and characters that are
       \* neither allowed nor letters
       /\ (\A i \in DOMAIN Strip(s) :
             Strip(s)[i] \notin SafeChars \cup Letters \cup Whitespace)
            => fnOut = <<"f","i","l","e">>
       \* letters, digits, "_" and "-" alone: kept, upper case lowered
       /\ (s # <<>> /\ Len(s) <= 60
           /\ Range(s) \subseteq SafeChars \cup Letters) =>
            /\ Len(fnOut) = Len(s)
            /\ \A i \in DOMAIN s :
                 IF s[i] \in Range(UpperSeq)
                   THEN \E j \in DOMAIN UpperSeq :
                          UpperSeq[j] = s[i] /\ fnOut[i] = LowerSeq[j]
                   ELSE fnOut[i] = s[i]
       \* allowed characters with whitespace inside: one "_" for each run
       /\ (/\ s # <<>> /\ Range(s) \subseteq SafeChars \cup Whitespace
           /\ s[1] \notin Whitespace /\ s[Len(s)] \notin Whitespace
           /\ Len(s) - Count(s, Whitespace) + WsRuns(s) <= 60) =>
            /\ Len(fnOut) = Len(s) - Count(s, Whitespace) + WsRuns(s)
            /\ Count(fnOut, {"_"}) = Count(s, {"_"}) + WsRuns(s)

C9_Witness ==
  /\ fnPc = "out" /\ fnIn # None
  /\ Len(fnIn[1]) > 60 /\ Len(fnOut) = 60
  /\ \E i \in DOMAIN fnIn[1] : fnIn[1][i] \in Range(UpperSeq)
  /\ "_" \in Range(fnOut) /\ "_" \notin Range(fnIn[1])
  /\ "!" \in Range(fnIn[1])

----------------------------------------------------------------------------

\* C10, as claimed: an authorized delivery request is answered
\* {ok: true, order_id, telegram} exactly when one POST was made and the
\* endpoint reported success (a 2xx status) for it.
C10_OkIffRemoteSuccess ==
  (AuthorizedSend /\ Done) =>
    ((resp[1].ok = "true") <=>
       (/\ tgCalls = 1 /\ remote # None /\ remote[1].kind = "response"
        /\ remote[1].status >= 200 /\ remote[1].status < 300))

\* C10, amended: the answer is {ok: true, order_id, telegram} exactly when
\* one POST was made, the endpoint answered it with a status below 400 and
\* the body of the answer parsed as JSON; the receipt is that body.  Every
\* other authorized delivery request is answered HTTP 500 {ok: false,
\* error}: no POST was made, or it failed in transport, or it was answered
\* with a status of 400 or above, or with a body that is no JSON.
C10_OkIffAcceptedAndParsed ==
  (AuthorizedSend /\ Done) =>
    /\ (resp[1].ok = "true") <=>
         (/\ tgCalls = 1 /\ remote # None /\ remote[1].kind = "response"
          /\ remote[1].status < 400 /\ remote[1].is_json)
    /\ resp[1].ok = "true" =>
         /\ resp[1].http = 200
         /\ resp[1].order_id = Some(fields[1].order_id)
         /\ resp[1].telegram = Some(remote[1].text)
    /\ resp[1].ok # "true" =>
         /\ FailureResponse
         /\ \/ tgCalls = 0 /\ remote = None
            \/ tgCalls = 1 /\ remote[1].kind # "response"
            \/ tgCalls = 1 /\ remote[1].status >= 400
            \/ tgCalls = 1 /\ ~remote[1].is_json

C10_Witness ==
  /\ AuthorizedSend /\ Done
  /\ tgCalls = 1 /\ remote # None /\ remote[1].status = 200
  /\ resp # None /\ resp[1].ok = "true"
  /\ resp[1].order_id = Some(<<"O","R","D","-","1">>)

====
